---- MODULE Spec2Model ----
(***************************************************************************)
(* Unknown Pleasures audio visualiser (src/index.js) as a state machine.   *)
(*                                                                         *)
(* The page is single threaded: every handler below (a promise             *)
(* continuation of initAudio, a click on the play control, one animation   *)
(* frame callback) runs to completion and is one action.  The host runs    *)
(* animation frame callbacks frame by frame: BeginFrame takes the list of  *)
(* callbacks requested so far, and RunRenderFrame and RunFadeOut run them   *)
(* one at a time in the order they were requested, all with the frame's    *)
(* timestamp.  Callbacks requested while a frame runs wait for the next    *)
(* frame.  A frame in the history carries the number of its sampling tick  *)
(* beside its values, which tells the array objects of two ticks apart.    *)
(***************************************************************************)
EXTENDS Integers, Sequences, FiniteSets, TLC

\* ---- program constants (src/index.js) ----
numberOfLines == 54
frameInterval == 30
fadeOutDuration == 1500

\* ---- bounds of the model ----
\* number of bins the analyser delivers per frame (frequencyBinCount)
MaxBins == 3
\* calls of setupAndPlay that get past the NotLoaded guard
MaxToggles == 4
\* animation frames the host runs while no fade-out is in progress
MaxFrames == 60
\* animation frames that follow the previous one after ShortPeriod only
MaxShortFrames == 1
\* milliseconds between two animation frames (a host that runs them slowly),
\* and the gap before a frame that comes early
FramePeriod == 756
ShortPeriod == 10
\* milliseconds by which performance.now() in a click handler can be past the
\* timestamp of the latest animation frame; longer than ShortPeriod, so that a
\* click can be handled after the timestamp of the next frame was taken
ClickLag == 12
\* makeSymmetric on its own: longest input frame
MaxLen == 4
\* the liveness specification runs the same actions under smaller bounds
LiveToggles == 4
LiveFrames == 3

VARIABLES
    loadPc,             \* where initAudio is suspended: "fetch", "body", "decode", "done", "failed"
    audioContext,       \* "undefined" or "object"
    analyser,           \* "undefined" or "object"
    audioBuffer,        \* "null" or "decoded"
    source,             \* [id, starts, stops, connected]: the node the variable refers to (id 0: undefined)
    detached,           \* the source nodes the variable referred to before, oldest first
    isPlaying,
    heap,               \* array objects: reference -> sequence of frames
    lastFrameTime,
    animationFrameId,   \* a callback handle (handles are positive), or 0 for the initial null
    statusText,         \* statusDiv.textContent, as a sequence of pieces
    playButtonDisabled,
    playButtonText,
    hideControls,       \* visualizationArea has the class hide-controls
    canvas,             \* what the canvas shows
    rafList,            \* callbacks requested for the next animation frame
    frameQueue,         \* callbacks of the running animation frame, not yet run
    now,                \* time of the latest animation frame (ms); performance.now() reads it
    nextHandle,         \* handle the next requestAnimationFrame returns
    toggles,            \* calls of setupAndPlay past the NotLoaded guard
    frames,             \* animation frames run
    shortFrames,        \* of which short ones
    sampleCount,        \* frames sampled so far (the tick number of the latest)
    lastEvent,          \* the handler that ran last
    symIn,              \* makeSymmetric on its own: the input
    symOut,             \* makeSymmetric on its own: [done, value], the output once computed
    canvasSize,         \* <<canvas.width, canvas.height>>
    clientSize          \* <<canvas.clientWidth, canvas.clientHeight>>: the displayed box

uiVars == <<statusText, playButtonDisabled, playButtonText, hideControls>>
loadVars == <<loadPc, audioContext, analyser, audioBuffer>>
rafVars == <<rafList, frameQueue, nextHandle, animationFrameId>>
countVars == <<toggles, frames, shortFrames>>
symVars == <<symIn, symOut>>
sizeVars == <<canvasSize, clientSize>>
vars == <<loadPc, audioContext, analyser, audioBuffer, source, detached, isPlaying, heap,
          lastFrameTime, animationFrameId, statusText, playButtonDisabled,
          playButtonText, hideControls, canvas, rafList, frameQueue, now,
          nextHandle, toggles, frames, shortFrames, sampleCount, lastEvent,
          symIn, symOut, canvasSize, clientSize>>

\* ---- helpers ----
Min(a, b) == IF a < b THEN a ELSE b
Max(a, b) == IF a > b THEN a ELSE b
Range(s) == {s[k] : k \in 1..Len(s)}

\* HTTP statuses a failed fetch answers with
HttpFailures == {404, 500}
\* byte values tried as magnitudes
ByteSamples == {0, 1, 128, 255}

\* the array bound to the const waveformHistory
waveformHistoryRef == 0

\* ---- makeSymmetric (src/index.js 157-184) ----
\* Storing a number into a Uint8Array truncates it and keeps the low 8 bits.
ToUint8(x) == x % 256

\* Math.sin(normalizedPos * Math.PI) with normalizedPos = i / m, as the
\* fraction SinNum / SinDen (Bhaskara's rational approximation of the sine on
\* [0, pi]: exact at 0, pi/6, pi/2, 5pi/6 and pi, within 0.002 elsewhere, and
\* like the sine within [0, 1]).
SinNum(i, m) == 16 * i * (m - i)
SinDen(i, m) == 5 * m * m - 4 * i * (m - i)

\* dataArray[i] * symmetricFactor, truncated.  With a single bin the position
\* is 0 / 0 = NaN, and NaN is stored as 0.
ScaledValue(v, i, m) ==
    IF m = 0 THEN 0 ELSE (v * SinNum(i, m)) \div SinDen(i, m)

\* a variant that normalises by the length (as calculateWaveformY does) and
\* leaves the end points as computed
makeSymmetricByLength(dataArray) ==
    [k \in 1..Len(dataArray) |->
        ToUint8((dataArray[k] * SinNum(k - 1, Len(dataArray)))
                    \div SinDen(k - 1, Len(dataArray)))]

makeSymmetric(dataArray) ==
    LET L == Len(dataArray)
        result == [k \in 1..L |-> ToUint8(ScaledValue(dataArray[k], k - 1, L - 1))]
    IN  [k \in 1..L |-> IF k = 1 \/ k = L THEN 0 ELSE result[k]]

\* ---- the analyser ----
frequencyBinCount == MaxBins

\* analyser.getByteFrequencyData at the n-th sample: the audio is one fixed
\* looped buffer, so the magnitudes are a fixed signal
getByteFrequencyData(n) ==
    [k \in 1..frequencyBinCount |-> (n * 37 + k * 101) % 256]

\* ---- the Waveform History ----
waveformHistory == heap[waveformHistoryRef]

\* waveformHistory.push(frame): at the back
PushBack(h, frame) == Append(h, frame)

\* waveformHistory.unshift(frame)
Unshift(h, frame) == <<frame>> \o h

\* no eviction
KeepAll(h) == h

\* eviction one entry early
EvictEarly(h) ==
    IF Len(h) >= numberOfLines THEN SubSeq(h, 1, Len(h) - 1) ELSE h

\* if (waveformHistory.length > numberOfLines) waveformHistory.pop()
Evict(h) ==
    IF Len(h) > numberOfLines THEN SubSeq(h, 1, Len(h) - 1) ELSE h

\* ---- animation frame callbacks ----
\* lastOpacity: the opacity the closure's previous call computed, -1 before
\* its first call
renderCallback(h) ==
    [handle |-> h, fn |-> "renderFrame", startTime |-> 0,
     currentWaveforms |-> waveformHistoryRef, captured |-> <<>>,
     lastOpacity |-> -1]

fadeCallback(h, start, ref, snap) ==
    [handle |-> h, fn |-> "fadeOut", startTime |-> start,
     currentWaveforms |-> ref, captured |-> snap, lastOpacity |-> -1]

\* cancelling nothing
cancelNothing(list, h) == list

\* cancelling every pending callback
cancelEverything(list, h) == <<>>

cancelAnimationFrame(list, h) == SelectSeq(list, LAMBDA c : c.handle # h)

\* the throttle of renderFrame
\* a renderer without the frame-rate limit
ThrottledNever(currentTime) == FALSE

Throttled(currentTime) == currentTime - lastFrameTime < frameInterval

\* renderFrame(currentTime) gets to sample, and its push evicts a frame
Samples(currentTime, playing) == playing /\ ~Throttled(currentTime)
Evicts(currentTime, playing) ==
    Samples(currentTime, playing) /\ Len(heap[waveformHistoryRef]) >= numberOfLines

\* a fade that ends only after the duration has been exceeded
FadeDoneStrict(elapsed) == elapsed > fadeOutDuration

\* a fade that takes its first callback for its last
FadeDoneAtOnce(elapsed) == elapsed >= 0

FadeDone(elapsed) == elapsed >= fadeOutDuration

\* opacity of fadeOut as a numerator over fadeOutDuration
Opacity(elapsed) == Max(0, fadeOutDuration - elapsed)

\* opacity * 0.9 of fadeOut as a numerator over fadeOutDuration * 10
FadeAlpha(elapsed) == Opacity(elapsed) * 9
FullAlpha == fadeOutDuration * 9

\* ---- the snapshot of a stop ----
\* a snapshot that is the history array itself
AliasOfHistory(fresh) == waveformHistoryRef

\* [...waveformHistory] is a new array
SnapshotRef(fresh) == fresh

FreshRef == CHOOSE r \in 1..(Cardinality(DOMAIN heap) + 1) : r \notin DOMAIN heap

\* an array no closure refers to any more is dropped
Release(h, ref) ==
    IF ref = waveformHistoryRef THEN h
    ELSE [r \in DOMAIN h \ {ref} |-> h[r]]

\* ---- canvas ----
\* <<width, height>> of a canvas element whose size was never assigned, and
\* the sizes of the box the page lays the canvas out in
DefaultCanvasSize == <<300, 150>>
DisplaySizes == {<<640, 480>>, <<320, 240>>}
Transparent == [fill |-> "transparent", rows |-> <<>>, alpha |-> 0]
SolidBlack == [fill |-> "black", rows |-> <<>>, alpha |-> 0]
Painted(rows, alpha) ==
    [fill |-> "black", rows |-> [j \in 1..Len(rows) |-> rows[j].tick], alpha |-> alpha]

\* the handler that ran: whether it sampled a frame and evicted one, its number
\* (the HTTP status of a failed fetch, the elapsed time of a fade callback),
\* the snapshot array of its fade and the opacity a fade callback computed
Event(op, sampled, evicted, arg, ref) ==
    [op |-> op, sampled |-> sampled, evicted |-> evicted, arg |-> arg, ref |-> ref,
     opacity |-> 0]

\* a handler that samples nothing
Plain(op, arg, ref) == Event(op, FALSE, FALSE, arg, ref)

\* a fade callback
FadeEvent(elapsed, ref, opacity) ==
    [Plain("fadeOut", elapsed, ref) EXCEPT !.opacity = opacity]

\* performance.now() in a handler: the timestamp of the latest animation
\* frame, or later by the time that has passed since it was taken
performanceNow(lag) == now + lag


\* ---- Init: the module has been evaluated (src/index.js 1-20, 335-339) ----
\* initAudio has run up to its first await
ModuleEvaluated ==
    /\ loadPc = "fetch"
    /\ audioContext = "undefined"
    /\ analyser = "undefined"
    /\ audioBuffer = "null"
    /\ source = [id |-> 0, starts |-> 0, stops |-> 0, connected |-> FALSE]
    /\ detached = <<>>
    /\ canvasSize = DefaultCanvasSize
    /\ clientSize = <<640, 480>>
    /\ isPlaying = FALSE
    /\ heap = [r \in {waveformHistoryRef} |-> <<>>]
    /\ lastFrameTime = 0
    /\ animationFrameId = 0
    /\ statusText = <<"Loading">>
    /\ playButtonDisabled = TRUE
    /\ playButtonText = "(markup)"
    /\ hideControls = FALSE
    /\ canvas = Transparent
    /\ rafList = <<>>
    /\ frameQueue = <<>>
    /\ now = 0
    /\ nextHandle = 1
    /\ toggles = 0
    /\ frames = 0
    /\ shortFrames = 0
    /\ sampleCount = 0
    /\ lastEvent = Plain("init", 0, 0)

Init ==
    /\ ModuleEvaluated
    /\ symIn = <<>>
    /\ symOut = [done |-> FALSE, value |-> <<>>]

\* a task (promise continuation, click) runs only between animation frames
Idle == frameQueue = <<>>

\* ---- initAudio (src/index.js 22-66) ----
playVars == <<source, detached, isPlaying, heap, lastFrameTime, canvas, now, sampleCount>>

\* a catch block that also enables the control
LoadFailedEnables(message) ==
    /\ statusText' = <<"Error: ">> \o message
    /\ loadPc' = "failed"
    /\ playButtonDisabled' = FALSE
    /\ UNCHANGED <<playButtonText, hideControls>>

\* the catch block (src/index.js 61-65)
LoadFailed(message) ==
    /\ statusText' = <<"Error: ">> \o message
    /\ loadPc' = "failed"
    /\ UNCHANGED <<playButtonDisabled, playButtonText, hideControls>>

\* fetch settles: a success status, a failure status, or a network error
FetchOk ==
    /\ Idle /\ loadPc = "fetch"
    /\ loadPc' = "body"
    /\ lastEvent' = Plain("fetchOk", 0, 0)
    /\ UNCHANGED <<audioContext, analyser, audioBuffer, uiVars, playVars,
                   rafVars, countVars, symVars, sizeVars>>

\* `Error: ${response.status}` writes the status in decimal (ToString); the
\* catch block puts the message of the thrown error behind "Error: "
FetchNotOk ==
    /\ Idle /\ loadPc = "fetch"
    /\ \E status \in HttpFailures :
        /\ LoadFailed(<<"Error: ", ToString(status)>>)
        /\ lastEvent' = Plain("fetchNotOk", status, 0)
    /\ UNCHANGED <<audioContext, analyser, audioBuffer, playVars, rafVars,
                   countVars, symVars, sizeVars>>

FetchRejected ==
    /\ Idle /\ loadPc = "fetch"
    /\ LoadFailed(<<"Failed to fetch">>)
    /\ lastEvent' = Plain("fetchRejected", 0, 0)
    /\ UNCHANGED <<audioContext, analyser, audioBuffer, playVars, rafVars,
                   countVars, symVars, sizeVars>>

\* response.arrayBuffer() resolves: the context and the analyser are created
\* and decodeAudioData is called
BodyRead ==
    /\ Idle /\ loadPc = "body"
    /\ audioContext' = "object"
    /\ analyser' = "object"
    /\ loadPc' = "decode"
    /\ lastEvent' = Plain("bodyRead", 0, 0)
    /\ UNCHANGED <<audioBuffer, uiVars, playVars, rafVars, countVars, symVars, sizeVars>>

\* a decode that succeeds and leaves the play control as it was
DecodeOkStaysDisabled ==
    /\ Idle /\ loadPc = "decode"
    /\ audioBuffer' = "decoded"
    /\ statusText' = <<"Unknown Pleasures">>
    /\ playButtonText' = "INITIATE"
    /\ loadPc' = "done"
    /\ lastEvent' = Plain("decodeOk", 0, 0)
    /\ UNCHANGED <<audioContext, analyser, playButtonDisabled, hideControls,
                   playVars, rafVars, countVars, symVars, sizeVars>>

DecodeOk ==
    /\ Idle /\ loadPc = "decode"
    /\ audioBuffer' = "decoded"
    /\ statusText' = <<"Unknown Pleasures">>
    /\ playButtonDisabled' = FALSE
    /\ playButtonText' = "INITIATE"
    /\ loadPc' = "done"
    /\ lastEvent' = Plain("decodeOk", 0, 0)
    /\ UNCHANGED <<audioContext, analyser, hideControls, playVars, rafVars,
                   countVars, symVars, sizeVars>>

DecodeRejected ==
    /\ Idle /\ loadPc = "decode"
    /\ LoadFailed(<<"(decoder message)">>)
    /\ lastEvent' = Plain("decodeRejected", 0, 0)
    /\ UNCHANGED <<audioContext, analyser, audioBuffer, playVars, rafVars,
                   countVars, symVars, sizeVars>>

\* ---- renderFrame (src/index.js 296-328) ----
\* The body of renderFrame(currentTime), called with isPlaying = playing, the
\* canvas showing cnv and list the callbacks requested so far.
\* the audio source node: createBufferSource(), connect() and start(0) of a
\* start, stop() and disconnect() of a stop
createBufferSource(id) == [id |-> id, starts |-> 0, stops |-> 0, connected |-> FALSE]
StartSource(s) == [s EXCEPT !.connected = TRUE, !.starts = @ + 1]

\* a stop that leaves the node running
LeaveSource(s) == s

StopSource(s) == [s EXCEPT !.stops = @ + 1, !.connected = FALSE]

renderFrame(currentTime, playing, list, cnv) ==
    IF ~playing
    THEN /\ rafList' = list
         /\ canvas' = cnv
         /\ UNCHANGED <<animationFrameId, nextHandle, lastFrameTime, heap, sampleCount>>
    ELSE /\ animationFrameId' = nextHandle
         /\ rafList' = Append(list, renderCallback(nextHandle))
         /\ nextHandle' = nextHandle + 1
         /\ IF Throttled(currentTime)
            THEN /\ canvas' = cnv
                 /\ UNCHANGED <<lastFrameTime, heap, sampleCount>>
            ELSE LET frame == [tick |-> sampleCount + 1,
                               data |-> makeSymmetric(getByteFrequencyData(sampleCount + 1))]
                     history == Evict(Unshift(waveformHistory, frame))
                 IN  /\ lastFrameTime' = currentTime
                     /\ sampleCount' = sampleCount + 1
                     /\ heap' = [heap EXCEPT ![waveformHistoryRef] = history]
                     /\ canvas' = Painted(history, FullAlpha)

\* ---- setupAndPlay (src/index.js 80-150) ----
StopPlaying(maxToggles) ==
    /\ Idle /\ audioBuffer # "null" /\ isPlaying
    /\ toggles < maxToggles
    /\ toggles' = toggles + 1
    /\ source' = IF source.id = 0 THEN source ELSE StopSource(source)
    /\ UNCHANGED detached
    /\ LET kept == IF animationFrameId = 0 THEN rafList
                   ELSE cancelAnimationFrame(rafList, animationFrameId)
           ref == SnapshotRef(FreshRef)
       IN  /\ \E lag \in {0, ClickLag} :
                rafList' = Append(kept, fadeCallback(nextHandle, performanceNow(lag),
                                                     ref, waveformHistory))
           /\ heap' = [r \in DOMAIN heap \cup {ref} |-> IF r = ref THEN waveformHistory ELSE heap[r]]
           /\ lastEvent' = Plain("stop", 0, ref)
    /\ nextHandle' = nextHandle + 1
    /\ isPlaying' = FALSE
    /\ playButtonText' = "INITIATE"
    /\ hideControls' = FALSE
    /\ UNCHANGED <<loadVars, statusText, playButtonDisabled, lastFrameTime,
                   canvas, now, sampleCount, animationFrameId, frameQueue,
                   frames, shortFrames, symVars, sizeVars>>

\* a start that leaves the controls on the page
StartBranchShowsControls ==
    /\ source' = StartSource(createBufferSource(source.id + 1))
    /\ detached' = IF source.id = 0 THEN detached ELSE Append(detached, source)
    /\ isPlaying' = TRUE
    /\ playButtonText' = "TERMINATE"
    /\ UNCHANGED hideControls
    /\ canvasSize' = clientSize
    /\ renderFrame(0, TRUE, rafList, Transparent)

\* the branch that starts playback (src/index.js 135-148)
StartBranch ==
    /\ source' = StartSource(createBufferSource(source.id + 1))
    /\ detached' = IF source.id = 0 THEN detached ELSE Append(detached, source)
    /\ isPlaying' = TRUE
    /\ playButtonText' = "TERMINATE"
    /\ hideControls' = TRUE
    /\ canvasSize' = clientSize
    \* draw(): the canvas is resized, which clears it; then renderFrame(0)
    /\ renderFrame(0, TRUE, rafList, Transparent)

StartPlaying(maxToggles) ==
    /\ Idle /\ audioBuffer # "null" /\ ~isPlaying
    /\ toggles < maxToggles
    /\ toggles' = toggles + 1
    /\ StartBranch
    /\ lastEvent' = Event("start", Samples(0, TRUE), Evicts(0, TRUE), 0, 0)
    /\ UNCHANGED <<loadVars, statusText, playButtonDisabled, now, frameQueue,
                   frames, shortFrames, symVars, clientSize>>

\* the guard without its return: the handler goes on into the start branch,
\* where createBufferSource throws unless the audio context exists
NotLoadedNoReturn ==
    /\ Idle /\ audioBuffer = "null"
    /\ statusText' = <<"Error: Audio didn't load">>
    /\ lastEvent' = Plain("notLoaded", 0, 0)
    /\ IF audioContext = "object"
       THEN /\ StartBranch
            /\ UNCHANGED <<loadVars, playButtonDisabled, now, frameQueue,
                           countVars, symVars, clientSize>>
       ELSE UNCHANGED <<loadVars, playButtonDisabled, playButtonText, hideControls,
                        playVars, rafVars, countVars, symVars, sizeVars>>

\* the guard of setupAndPlay (src/index.js 82-85)
NotLoaded ==
    /\ Idle /\ audioBuffer = "null"
    /\ statusText' = <<"Error: Audio didn't load">>
    /\ lastEvent' = Plain("notLoaded", 0, 0)
    /\ UNCHANGED <<loadVars, playButtonDisabled, playButtonText, hideControls,
                   playVars, rafVars, countVars, symVars, sizeVars>>

\* ---- the host's animation frames ----
BeginFrame(maxFrames) ==
    /\ Idle /\ rafList # <<>>
    /\ \/ frames < maxFrames
       \/ \E k \in 1..Len(rafList) : rafList[k].fn = "fadeOut"
    /\ \/ /\ now' = now + FramePeriod
          /\ UNCHANGED shortFrames
       \/ /\ shortFrames < MaxShortFrames
          /\ shortFrames' = shortFrames + 1
          /\ now' = now + ShortPeriod
    /\ frames' = frames + 1
    /\ frameQueue' = rafList
    /\ rafList' = <<>>
    /\ lastEvent' = Plain("frame", 0, 0)
    /\ UNCHANGED <<loadVars, uiVars, source, detached, isPlaying, heap, lastFrameTime,
                   canvas, nextHandle, animationFrameId, toggles, sampleCount,
                   symVars, sizeVars>>

RunRenderFrame ==
    /\ frameQueue # <<>> /\ Head(frameQueue).fn = "renderFrame"
    /\ frameQueue' = Tail(frameQueue)
    /\ renderFrame(now, isPlaying, rafList, canvas)
    /\ lastEvent' = Event("renderFrame", Samples(now, isPlaying), Evicts(now, isPlaying), 0, 0)
    /\ UNCHANGED <<loadVars, uiVars, source, detached, isPlaying, now, countVars, symVars, sizeVars>>

\* fadeOut (src/index.js 105-132)
RunFadeOut ==
    /\ frameQueue # <<>> /\ Head(frameQueue).fn = "fadeOut"
    /\ frameQueue' = Tail(frameQueue)
    /\ LET cb == Head(frameQueue)
           elapsed == now - cb.startTime
           opacity == Opacity(elapsed)
       IN  /\ lastEvent' = FadeEvent(elapsed, cb.currentWaveforms, opacity)
           /\ IF FadeDone(elapsed)
              THEN /\ canvas' = SolidBlack
                   /\ heap' = Release([heap EXCEPT ![waveformHistoryRef] = <<>>],
                                      cb.currentWaveforms)
                   /\ UNCHANGED <<rafList, nextHandle>>
              ELSE /\ canvas' = Painted(heap[cb.currentWaveforms], FadeAlpha(elapsed))
                   /\ rafList' = Append(rafList, [cb EXCEPT !.handle = nextHandle,
                                                           !.lastOpacity = opacity])
                   /\ nextHandle' = nextHandle + 1
                   /\ UNCHANGED heap
    /\ UNCHANGED <<loadVars, uiVars, source, detached, isPlaying, lastFrameTime,
                   animationFrameId, now, countVars, sampleCount, symVars, sizeVars>>

Load == FetchOk \/ FetchNotOk \/ FetchRejected \/ BodyRead \/ DecodeOk \/ DecodeRejected

Next ==
    \/ Load
    \/ NotLoaded
    \/ StartPlaying(MaxToggles)
    \/ StopPlaying(MaxToggles)
    \/ BeginFrame(MaxFrames)
    \/ RunRenderFrame
    \/ RunFadeOut

Spec == Init /\ [][Next]_vars

\* ---- the same program under the host's scheduling guarantee ----
\* The host keeps running animation frames while callbacks are requested, and
\* runs every callback of a frame.
LiveNext ==
    \/ Load
    \/ NotLoaded
    \/ StartPlaying(LiveToggles)
    \/ StopPlaying(LiveToggles)
    \/ BeginFrame(LiveFrames)
    \/ RunRenderFrame
    \/ RunFadeOut

LiveSpec ==
    /\ Init
    /\ [][LiveNext]_vars
    /\ WF_vars(BeginFrame(LiveFrames))
    /\ WF_vars(RunRenderFrame)
    /\ WF_vars(RunFadeOut)

\* ---- the page is laid out again ----
\* The displayed box of the canvas changes (the window is resized) between two
\* handlers; no listener of the program runs.
Resize ==
    /\ Idle
    /\ \E size \in DisplaySizes \ {clientSize} : clientSize' = size
    /\ lastEvent' = Plain("resize", 0, 0)
    /\ UNCHANGED <<loadVars, uiVars, playVars, rafVars, countVars, symVars, canvasSize>>

SizeNext ==
    \/ Load
    \/ NotLoaded
    \/ StartPlaying(LiveToggles)
    \/ StopPlaying(LiveToggles)
    \/ BeginFrame(LiveFrames)
    \/ RunRenderFrame
    \/ RunFadeOut
    \/ Resize

SizeSpec == Init /\ [][SizeNext]_vars

\* ---- makeSymmetric on its own ----
SymInputs == UNION {[1..n -> ByteSamples] : n \in 0..MaxLen}

SymInit ==
    /\ ModuleEvaluated
    /\ symIn \in SymInputs
    /\ symOut = [done |-> FALSE, value |-> <<>>]

ApplyMakeSymmetric ==
    /\ ~symOut.done
    /\ symOut' = [done |-> TRUE, value |-> makeSymmetric(symIn)]
    /\ UNCHANGED <<loadVars, uiVars, playVars, rafVars, countVars, lastEvent, symIn,
                   sizeVars>>

SymNext == ApplyMakeSymmetric

SymSpec == SymInit /\ [][SymNext]_vars

\* ======================== properties ========================

\* every animation frame callback requested and not yet run
Pending == rafList \o frameQueue
PendingFades == {Pending[k] : k \in {j \in 1..Len(Pending) : Pending[j].fn = "fadeOut"}}
PendingRenders == {k \in 1..Len(Pending) : Pending[k].fn = "renderFrame"}

\* the frame the sampler builds at the n-th sample
FrameOf(n) == [tick |-> n, data |-> makeSymmetric(getByteFrequencyData(n))]

\* C1: in every reachable state, under any interleaving of load completion,
\* toggles, render callbacks and fade callbacks, the Waveform History holds at
\* most numberOfLines entries.
C1_HistoryBounded == Len(waveformHistory) <= numberOfLines

\* a sample was pushed on a full history, in a playback that was restarted
\* after a stop
C1_Witness ==
    /\ lastEvent.op = "renderFrame" /\ lastEvent.evicted
    /\ toggles >= 3
    /\ Len(waveformHistory) = numberOfLines

\* the order of the history in a state, and what a push does to it
C2_NewestFirstNow ==
    /\ \A i \in 1..(Len(waveformHistory) - 1) :
            waveformHistory[i].tick > waveformHistory[i + 1].tick
    /\ waveformHistory # <<>> => waveformHistory[1] = FrameOf(sampleCount)

C2_PushStep ==
    sampleCount' # sampleCount =>
        /\ sampleCount' = sampleCount + 1
        /\ waveformHistory' # <<>>
        /\ Head(waveformHistory') = FrameOf(sampleCount')
        /\ Tail(waveformHistory') =
                IF Len(waveformHistory) >= numberOfLines
                THEN SubSeq(waveformHistory, 1, numberOfLines - 1)
                ELSE waveformHistory

\* C2: the Waveform History is ordered newest first: entry 0 is the frame
\* sampled last, entries at increasing index were sampled at strictly earlier
\* ticks, and a push that exceeds numberOfLines evicts exactly the last entry
\* and drops or reorders no other.
C2_NewestFirst == [](C2_NewestFirstNow) /\ [][C2_PushStep]_vars

\* a push has just evicted the oldest frame of a full history
C2_Witness ==
    /\ lastEvent.evicted
    /\ Len(waveformHistory) = numberOfLines
    /\ waveformHistory[numberOfLines].tick = sampleCount - numberOfLines + 1
    /\ waveformHistory[numberOfLines].tick > 1

\* a call of setupAndPlay that finds no buffer
C3_NotLoadedStep ==
    (audioBuffer = "null" /\ lastEvent'.op \in {"notLoaded", "start", "stop"}) =>
        /\ statusText' = <<"Error: Audio didn't load">>
        /\ UNCHANGED <<isPlaying, source, detached, heap, rafList, frameQueue,
                       animationFrameId, nextHandle, lastFrameTime, canvas,
                       playButtonText, playButtonDisabled, hideControls,
                       audioBuffer, audioContext, analyser, loadPc>>

\* C3: setupAndPlay called while no audio buffer is loaded puts the NotLoaded
\* error into the status text and changes nothing else: isPlaying, the audio
\* source, the Waveform History, the requested render and fade callbacks, the
\* button text and the hide-controls class stay as they are.
C3_NotLoadedNoOp == [][C3_NotLoadedStep]_vars

\* the toggle was called after decoding had failed: the context exists, the
\* buffer does not
C3_Witness ==
    /\ lastEvent.op = "notLoaded"
    /\ loadPc = "failed" /\ audioContext = "object"
    /\ statusText = <<"Error: Audio didn't load">>

\* a failed load in a state, and that it stays failed
C4_FailedNow ==
    /\ lastEvent.op = "fetchNotOk" =>
            /\ loadPc = "failed"
            /\ statusText[1] = "Error: "
            /\ lastEvent.arg \in HttpFailures
            /\ ToString(lastEvent.arg) \in Range(statusText)
    /\ lastEvent.op = "decodeRejected" =>
            /\ loadPc = "failed"
            /\ statusText = <<"Error: ", "(decoder message)">>
    /\ loadPc = "failed" =>
            /\ playButtonDisabled
            /\ audioBuffer = "null"
            /\ ~isPlaying

C4_FailedStep == loadPc = "failed" => loadPc' = "failed"

\* C4: when the fetch answers with a failure status or decoding fails, the
\* status text is an error message with the status code (the decoder's
\* message), the play control stays disabled, and from then on the control is
\* never enabled, the buffer stays unloaded and playback never plays.
C4_LoadFailureIsTerminal == [](C4_FailedNow) /\ [][C4_FailedStep]_vars

\* the fetch has just answered 404
C4_Witness ==
    /\ lastEvent.op = "fetchNotOk"
    /\ statusText = <<"Error: ", "Error: ", "404">>
    /\ playButtonDisabled

\* C5: the snapshot a stop captures (the copy of the Waveform History) keeps
\* the same sequence of frames with the same values from the stop until the
\* last callback of its fade, whatever toggles, samples of a restarted
\* playback and history clears of other fades happen meanwhile.
C5_SnapshotImmutable ==
    \A cb \in PendingFades :
        /\ cb.currentWaveforms \in DOMAIN heap
        /\ heap[cb.currentWaveforms] = cb.captured

\* the fade of an earlier stop has just emptied the history while the
\* snapshot of a later stop, holding frames the restarted playback sampled,
\* waits for its next callback
C5_Witness ==
    /\ lastEvent.op = "fadeOut" /\ lastEvent.arg >= fadeOutDuration
    /\ waveformHistory = <<>>
    /\ \E cb \in PendingFades :
            /\ cb.captured # <<>>
            /\ cb.startTime > now - fadeOutDuration

\* C6: a fade callback that runs with elapsed >= fadeOutDuration leaves the
\* Waveform History empty and the canvas solid black and requests no further
\* fade callback, whatever the size of its snapshot.
C6_FadeEnd ==
    (lastEvent.op = "fadeOut" /\ lastEvent.arg >= fadeOutDuration) =>
        /\ waveformHistory = <<>>
        /\ canvas = SolidBlack
        /\ \A k \in 1..Len(rafList) :
                ~(rafList[k].fn = "fadeOut" /\ rafList[k].currentWaveforms = lastEvent.ref)

\* the last callback of a fade ran exactly at the duration, while a restarted
\* playback had frames in the history
C6_Witness ==
    /\ lastEvent.op = "fadeOut" /\ lastEvent.arg = fadeOutDuration
    /\ isPlaying /\ sampleCount > 0
    /\ waveformHistory = <<>>

\* C7: after a successful load and exactly one toggle, after k sampling ticks
\* the history holds min(k, numberOfLines) frames; once k >= numberOfLines
\* entry 0 is the frame of the latest tick and entry numberOfLines - 1 the
\* frame sampled numberOfLines - 1 ticks before it.
C7_FirstSession ==
    (toggles = 1 /\ isPlaying) =>
        /\ Len(waveformHistory) = Min(sampleCount, numberOfLines)
        /\ sampleCount >= numberOfLines =>
                /\ waveformHistory[1] = FrameOf(sampleCount)
                /\ waveformHistory[numberOfLines] = FrameOf(sampleCount - (numberOfLines - 1))

\* more than numberOfLines ticks sampled, one tick throttled
C7_Witness ==
    /\ toggles = 1 /\ isPlaying
    /\ sampleCount > numberOfLines
    /\ shortFrames > 0
    /\ Len(waveformHistory) = numberOfLines

\* C8: for every input frame of byte values, the output of makeSymmetric has
\* the same length, its first and last elements are 0, and no element exceeds
\* the input element at the same index.
C8_MakeSymmetric ==
    symOut.done =>
        /\ Len(symOut.value) = Len(symIn)
        /\ symIn # <<>> => symOut.value[1] = 0 /\ symOut.value[Len(symIn)] = 0
        /\ \A k \in 1..Len(symIn) :
                symOut.value[k] >= 0 /\ symOut.value[k] <= symIn[k]

\* a longest frame whose last input is not 0 and with an inner element that
\* is scaled down but not to 0
C8_Witness ==
    /\ symOut.done
    /\ Len(symIn) = MaxLen
    /\ symIn[MaxLen] = 255
    /\ \E k \in 1..MaxLen : 0 < symOut.value[k] /\ symOut.value[k] < symIn[k]

\* the render callbacks requested in a state, and a step while stopped
C9_RenderPendingNow ==
    /\ ~isPlaying => PendingRenders = {}
    /\ isPlaying => Cardinality(PendingRenders) = 1

C9_NoPushStep ==
    (~isPlaying /\ ~isPlaying') =>
        /\ sampleCount' = sampleCount
        /\ waveformHistory' \in {waveformHistory, <<>>}

\* C9: sampling stops at once on stop.  While isPlaying is false no render
\* callback is requested and no frame is pushed before the next start; while
\* isPlaying is true exactly one render callback is requested, over any
\* number of start and stop cycles.
C9_SamplingStopsOnStop == [](C9_RenderPendingNow) /\ [][C9_NoPushStep]_vars

\* stopped for the second time, in the middle of an animation frame
C9_Witness ==
    /\ ~isPlaying
    /\ toggles = 4
    /\ frameQueue # <<>>
    /\ sampleCount > 0

\* a fade chain, named by its snapshot array, and the only step that ends it
FadeRefs == 1..(LiveToggles + 1)
FadePending(ref) == \E cb \in PendingFades : cb.currentWaveforms = ref
FadeEnded(ref) ==
    /\ lastEvent.op = "fadeOut"
    /\ lastEvent.ref = ref
    /\ lastEvent.arg >= fadeOutDuration
    /\ ~FadePending(ref)

C10_OnlyItsEndStep ==
    \A ref \in FadeRefs :
        (FadePending(ref) /\ ~FadePending(ref)') => FadeEnded(ref)'

\* C10: every fade chain a stop starts reaches its last callback (elapsed >=
\* fadeOutDuration) and then requests no more, given that the host keeps
\* running animation frames; no later toggle cancels or shortens it.
C10_FadeTerminates ==
    /\ \A ref \in FadeRefs : FadePending(ref) ~> FadeEnded(ref)
    /\ [][C10_OnlyItsEndStep]_vars

\* playback has been restarted and stopped again while the fade of the first
\* stop still has callbacks to run
C10_Witness ==
    /\ lastEvent.op = "stop"
    /\ Cardinality(PendingFades) = 2
    /\ \E cb \in PendingFades : cb.startTime < now

\* C11 as worded: the Waveform History is changed by the Frame Sampler only,
\* so every step that changes its contents is a sampling tick.
C11_OnlySamplerMutates ==
    [][waveformHistory' # waveformHistory => lastEvent'.sampled]_vars

\* a step seen from the Waveform History: who changes it and who reads it
C11_HistoryStep ==
    /\ waveformHistory' # waveformHistory =>
            \/ /\ lastEvent'.op = "renderFrame" /\ lastEvent'.sampled
               /\ Head(waveformHistory') = FrameOf(sampleCount')
               /\ Tail(waveformHistory') =
                    IF Len(waveformHistory) >= numberOfLines
                    THEN SubSeq(waveformHistory, 1, numberOfLines - 1)
                    ELSE waveformHistory
            \/ /\ lastEvent'.op = "fadeOut" /\ lastEvent'.arg >= fadeOutDuration
               /\ waveformHistory' = <<>>
    /\ lastEvent'.op = "stop" =>
            /\ waveformHistory' = waveformHistory
            /\ heap'[lastEvent'.ref] = waveformHistory
    /\ (lastEvent'.op = "renderFrame" /\ lastEvent' # lastEvent) =>
            IF lastEvent'.sampled
            THEN canvas'.rows = [j \in 1..Len(waveformHistory') |-> waveformHistory'[j].tick]
            ELSE canvas' = canvas /\ waveformHistory' = waveformHistory
    /\ lastEvent'.op \in {"start", "notLoaded", "frame", "resize", "fetchOk", "fetchNotOk",
                          "fetchRejected", "bodyRead", "decodeOk", "decodeRejected"} =>
            waveformHistory' = waveformHistory

\* C11: the Waveform History is changed only by the Frame Sampler's push and
\* evict and by the last callback of a fade, which empties it; the loader, the
\* toggles and the earlier fade callbacks leave it as it is.  It is read by
\* the renderer in the tick that sampled and by a stop, which copies it.
C11_HistoryWriters == [][C11_HistoryStep]_vars

\* the last callback of the only fade has emptied the history the stopped
\* playback had filled
C11_Witness ==
    /\ lastEvent.op = "fadeOut" /\ lastEvent.arg >= fadeOutDuration
    /\ toggles = 2 /\ ~isPlaying
    /\ sampleCount > 1
    /\ waveformHistory = <<>>

\* a render callback is taken from the head of the running animation frame
RenderCallbackRuns ==
    /\ frameQueue # <<>>
    /\ Head(frameQueue).fn = "renderFrame"
    /\ frameQueue' = Tail(frameQueue)

C12_ThrottleStep ==
    /\ now' >= now
    /\ sampleCount' # sampleCount =>
            /\ RenderCallbackRuns /\ isPlaying
            /\ now - lastFrameTime >= frameInterval
            /\ lastFrameTime' = now
            /\ lastFrameTime' - lastFrameTime >= frameInterval
    /\ (RenderCallbackRuns /\ isPlaying /\ now - lastFrameTime < frameInterval) =>
            /\ waveformHistory' = waveformHistory
            /\ lastFrameTime' = lastFrameTime
            /\ sampleCount' = sampleCount
            /\ rafList' = Append(rafList, renderCallback(animationFrameId'))
    /\ (RenderCallbackRuns /\ isPlaying /\ now - lastFrameTime >= frameInterval) =>
            sampleCount' = sampleCount + 1
    /\ (~isPlaying /\ isPlaying') =>
            /\ sampleCount' = sampleCount
            /\ waveformHistory' = waveformHistory
            /\ lastFrameTime' = lastFrameTime

\* C12: while playing, a render callback samples exactly when its timestamp
\* is at least frameInterval after the timestamp of the last sample, and
\* otherwise requests the next callback without touching the history or
\* lastFrameTime; so consecutive samples, also across a stop and a restart,
\* are at least frameInterval apart, and the call a start makes itself never
\* samples.
C12_Throttle == [][C12_ThrottleStep]_vars

\* a restarted playback has just skipped a callback that came too soon after
\* the last sample, taken before the stop
C12_Witness ==
    /\ lastEvent.op = "renderFrame" /\ ~lastEvent.sampled
    /\ isPlaying /\ toggles = 3
    /\ sampleCount > 0
    /\ now - lastFrameTime = ShortPeriod
    /\ \E k \in 1..Len(rafList) : rafList[k].fn = "renderFrame"

\* C13: while playing, the Waveform History is changed only by sampling:
\* between two samples of one playing session its length never decreases and
\* it is never emptied, also when the playback was restarted while the fade
\* of the previous stop was still running.
C13_PlayingHistoryGrows ==
    [][(isPlaying /\ isPlaying') =>
            /\ Len(waveformHistory') >= Len(waveformHistory)
            /\ waveformHistory' # waveformHistory => sampleCount' = sampleCount + 1
            /\ waveformHistory # <<>> => waveformHistory' # <<>>]_vars

\* C14: at most one fade-out callback chain has a callback pending at any
\* time, for every sequence of toggles.
C14_OneFadeChain == Cardinality(PendingFades) <= 1

\* every source node created so far, and those that sound
AllSources == Range(detached) \cup (IF source.id = 0 THEN {} ELSE {source})
Sounding == {s \in AllSources : s.starts > s.stops}

C15_SourcesNow ==
    /\ Cardinality(AllSources) = source.id
    /\ \A s \in AllSources : s.starts = 1 /\ s.stops <= 1
    /\ \A s \in AllSources : s.connected <=> s.stops = 0
    /\ Cardinality(Sounding) <= 1
    /\ isPlaying <=> Sounding # {}
    /\ isPlaying => Sounding = {source}

C15_SourceStep ==
    /\ (~isPlaying /\ isPlaying') =>
            /\ source'.id \notin {s.id : s \in AllSources}
            /\ source'.starts = 1 /\ source'.stops = 0
    /\ (isPlaying /\ ~isPlaying') =>
            /\ source'.id = source.id
            /\ source'.stops = source.stops + 1
            /\ ~source'.connected
    /\ (isPlaying' = isPlaying) => source' = source

\* C15: every start creates a fresh audio source and starts it once, and every
\* stop stops and disconnects that same source: at most one source is started
\* and not yet stopped, there is one exactly when isPlaying is true, and no
\* source is started twice or stopped twice.
C15_OneSource == [](C15_SourcesNow) /\ [][C15_SourceStep]_vars

\* the second source has been stopped; the first one, stopped before, is no
\* longer referred to
C15_Witness ==
    /\ lastEvent.op = "stop"
    /\ source.id = 2 /\ source.stops = 1
    /\ Len(detached) = 1 /\ detached[1].stops = 1

\* C16: playback can be Playing only after a successful load: isPlaying
\* implies that the audio buffer, the audio context and the analyser exist,
\* and the play control is enabled exactly when the audio buffer is loaded.
C16_PlayingNeedsLoad ==
    /\ isPlaying =>
            /\ audioBuffer = "decoded"
            /\ audioContext = "object"
            /\ analyser = "object"
            /\ loadPc = "done"
    /\ playButtonDisabled <=> audioBuffer = "null"

\* playing after the load, with frames sampled
C16_Witness ==
    /\ isPlaying /\ sampleCount > 0
    /\ audioBuffer = "decoded"
    /\ ~playButtonDisabled

\* the controls in a state, and a step of an animation frame
C17_ControlsNow ==
    toggles > 0 =>
        /\ hideControls <=> isPlaying
        /\ playButtonText = IF isPlaying THEN "TERMINATE" ELSE "INITIATE"

C17_CallbackStep ==
    (frameQueue # <<>> \/ frameQueue' # <<>>) =>
        UNCHANGED <<playButtonText, hideControls, isPlaying>>

\* C17: after every toggle that started or stopped playback the UI matches
\* the playback flag: the container has the hide-controls class exactly when
\* isPlaying is true, and the button text is TERMINATE when playing and
\* INITIATE when not; no render or fade callback changes either.
C17_UiMatchesPlayback == [](C17_ControlsNow) /\ [][C17_CallbackStep]_vars

\* a fade callback of the first stop has run in a restarted playback and the
\* controls are still hidden
C17_Witness ==
    /\ lastEvent.op = "fadeOut"
    /\ toggles = 3 /\ isPlaying
    /\ hideControls /\ playButtonText = "TERMINATE"

\* a fade callback is taken from the head of the running animation frame
FadeCallbackRuns ==
    /\ frameQueue # <<>>
    /\ Head(frameQueue).fn = "fadeOut"
    /\ frameQueue' = Tail(frameQueue)

\* the opacity the callback computed is max(0, 1 - elapsed / duration), it is
\* not above the one its previous call computed, and rows are drawn with a
\* positive opacity only
C18_DecayStep ==
    FadeCallbackRuns =>
        LET cb == Head(frameQueue)
            elapsed == now - cb.startTime
        IN  /\ lastEvent'.op = "fadeOut" /\ lastEvent'.arg = elapsed
            /\ lastEvent'.opacity =
                    IF elapsed >= fadeOutDuration THEN 0 ELSE fadeOutDuration - elapsed
            /\ cb.lastOpacity >= 0 => lastEvent'.opacity <= cb.lastOpacity
            /\ canvas'.rows # <<>> =>
                    /\ lastEvent'.opacity > 0
                    /\ canvas'.alpha = lastEvent'.opacity * 9
            /\ elapsed >= fadeOutDuration => canvas'.rows = <<>>

\* C18: within one fade chain the opacity computed at each callback is
\* max(0, 1 - elapsed / duration): it lies in [0, 1] at every callback, never
\* increases from one callback to the next, and every frame that draws
\* snapshot rows uses a strictly positive opacity.
C18_OpacityInUnitRange ==
    [][C18_DecayStep /\
       (FadeCallbackRuns =>
            lastEvent'.opacity >= 0 /\ lastEvent'.opacity <= fadeOutDuration)]_vars

\* C19: the renderer resizes the canvas to its displayed box on every
\* invocation: after each rendered frame canvas.width and canvas.height equal
\* the canvas's current displayed size, also when the displayed size changed
\* since playback started.
C19_CanvasFitsBox ==
    (lastEvent.op = "renderFrame" /\ lastEvent.sampled) => canvasSize = clientSize

====
